---- MODULE Spec2Model ----
(***************************************************************************)
(* A model of PollReader (src/PollReader.py): the raw lines of a polling   *)
(* CSV file, the six-column table build_data_dict derives from them, and   *)
(* the three queries over that table.                                      *)
(*                                                                         *)
(* Text is modelled character by character: a line is a sequence of        *)
(* one-character strings, and strip, split, int and float are computed on  *)
(* those sequences.  A float is modelled by the exact rational it denotes  *)
(* (a record [n, d] in lowest terms), so sums, means and comparisons are   *)
(* exact; binary rounding of IEEE doubles is not modelled.                 *)
(***************************************************************************)
EXTENDS Integers, Sequences, FiniteSets

VARIABLES
    raw_data,   \* self.raw_data: the lines read by the constructor
    data_dict,  \* self.data_dict: six parallel columns
    op,         \* the method called last ("init" after construction)
    exc,        \* the exception the last call raised, or "none"
    ret,        \* the value the last call returned (<<>> for None)
    k,          \* polling_history_change's local k (0 when not computed)
    builds      \* number of build_data_dict calls made so far

vars == <<raw_data, data_dict, op, exc, ret, k, builds>>

----------------------------------------------------------------------------
(* Bounds of the model *)

\* longest file made of arbitrary lines of LinePool
MaxLines == 3

\* most data rows in a file of well-formed rows only
MaxLong == 61

\* most data rows in a file mixing well-formed and 3-field rows
MaxMixed == 12

\* most 3-field rows in such a file
MaxShort == 2

\* most build_data_dict calls in one run
MaxBuilds == 2

----------------------------------------------------------------------------
(* Program constants *)

\* len(parts) < 5
MinFields == 5

\* n >= 60
LongHistory == 60

\* k = 30
LongWindow == 30

\* v / 100.0
PctScale == 100

----------------------------------------------------------------------------
(* Lines a file may hold *)

\* 'm,d,s,H,T' + newline
LineHeader ==
    << "m", ",", "d", ",", "s", ",", "H", ",", "T", "\n" >>

\* ' ' + newline
LineBlank ==
    << " ", "\n" >>

\* 'Sep,15,900 lv,57,43' + newline
LineSepLv ==
    << "S", "e", "p", ",", "1", "5", ",", "9", "0", "0", " ", "l", "v", ",", "5", "7", ",", "4", "3", "\n" >>

\* 'Aug,4,800 rv,0.5,57' + newline
LineAugRv ==
    << "A", "u", "g", ",", "4", ",", "8", "0", "0", " ", "r", "v", ",", "0", ".", "5", ",", "5", "7", "\n" >>

\* 'Jul,3,70 Likely,50,50' + newline
LineJulLikely ==
    << "J", "u", "l", ",", "3", ",", "7", "0", " ", "L", "i", "k", "e", "l", "y", ",", "5", "0", ",", "5", "0", "\n" >>

\* 'Oct,2,60 a' + newline
LineShort3 ==
    << "O", "c", "t", ",", "2", ",", "6", "0", " ", "a", "\n" >>

\* 'Nov,x,50 lv,48,47' + newline
LineBadDate ==
    << "N", "o", "v", ",", "x", ",", "5", "0", " ", "l", "v", ",", "4", "8", ",", "4", "7", "\n" >>

\* 'Dec,1,,45,46' + newline
LineNoSample ==
    << "D", "e", "c", ",", "1", ",", ",", "4", "5", ",", "4", "6", "\n" >>

\* 'Mar,9,40,150,-5' + newline
LineOutOfRange ==
    << "M", "a", "r", ",", "9", ",", "4", "0", ",", "1", "5", "0", ",", "-", "5", "\n" >>

\* 'Jun, 7 ,30  LV ,1,1.0,x' + newline
LineSixFields ==
    << "J", "u", "n", ",", " ", "7", " ", ",", "3", "0", " ", " ", "L", "V", " ", ",", "1", ",", "1", ".", "0", ",", "x", "\n" >>

\* 'Feb,8,z lv,44,41' + newline
LineBadSample ==
    << "F", "e", "b", ",", "8", ",", "z", " ", "l", "v", ",", "4", "4", ",", "4", "1", "\n" >>

\* 'May,6,20 rv,4x,40' + newline
LineBadFloat ==
    << "M", "a", "y", ",", "6", ",", "2", "0", " ", "r", "v", ",", "4", "x", ",", "4", "0", "\n" >>

LinePool ==
    { LineHeader, LineBlank, LineSepLv, LineAugRv, LineJulLikely, LineShort3,
      LineBadDate, LineNoSample, LineOutOfRange, LineSixFields, LineBadSample,
      LineBadFloat }

\* well-formed rows, used to fill the long and the mixed files
GoodRows == << LineSepLv, LineAugRv, LineJulLikely, LineSixFields >>

----------------------------------------------------------------------------
(* Integers and sets *)

SetMin(S) == CHOOSE x \in S : \A y \in S : x <= y

SetMax(S) == CHOOSE x \in S : \A y \in S : x >= y

Abs(x) == IF x < 0 THEN -x ELSE x

RECURSIVE GCD(_, _)
GCD(a, b) == IF b = 0 THEN a ELSE GCD(b, a % b)

RECURSIVE Pow10(_)
Pow10(e) == IF e = 0 THEN 1 ELSE 10 * Pow10(e - 1)

----------------------------------------------------------------------------
(* Floats, as exact rationals [n |-> numerator, d |-> denominator > 0] *)

Rat(n, d) ==
    LET g == GCD(Abs(n), d)
    IN  [n |-> n \div g, d |-> d \div g]

RatZero == [n |-> 0, d |-> 1]

RatOne == [n |-> 1, d |-> 1]

RatAdd(a, b) == Rat(a.n * b.d + b.n * a.d, a.d * b.d)

RatSub(a, b) == Rat(a.n * b.d - b.n * a.d, a.d * b.d)

RatDivInt(a, m) == Rat(a.n, a.d * m)

RatGT(a, b) == a.n * b.d > b.n * a.d

\* sum(xs) of a list of floats
RECURSIVE SumSeq(_)
SumSeq(xs) == IF xs = <<>> THEN RatZero ELSE RatAdd(Head(xs), SumSeq(Tail(xs)))

\* max(xs) of a non-empty list: the first element no other exceeds
RECURSIVE MaxSeq(_)
MaxSeq(xs) ==
    IF Len(xs) = 1 THEN xs[1]
    ELSE LET m == MaxSeq(Tail(xs))
         IN  IF RatGT(m, xs[1]) THEN m ELSE xs[1]

\* f"{x * 100:.1f}": x*100 rounded to one decimal (ties to even), in tenths
Fmt1(x) ==
    LET num == x.n * 1000
        q   == num \div x.d
        r   == num % x.d
    IN  IF 2 * r > x.d THEN q + 1
        ELSE IF 2 * r < x.d THEN q
        ELSE IF q % 2 = 0 THEN q ELSE q + 1

----------------------------------------------------------------------------
(* Strings, as sequences of one-character strings *)

\* the characters str.strip() and str.split() treat as whitespace
Whitespace == {" ", "\n", "\t"}

DigitChars == <<"0", "1", "2", "3", "4", "5", "6", "7", "8", "9">>

UpperChars ==
    <<"A", "B", "C", "D", "E", "F", "G", "H", "I", "J", "K", "L", "M",
      "N", "O", "P", "Q", "R", "S", "T", "U", "V", "W", "X", "Y", "Z">>

LowerChars ==
    <<"a", "b", "c", "d", "e", "f", "g", "h", "i", "j", "k", "l", "m",
      "n", "o", "p", "q", "r", "s", "t", "u", "v", "w", "x", "y", "z">>

IsDigit(c) == \E i \in 1..10 : DigitChars[i] = c

DigitVal(c) == (CHOOSE i \in 1..10 : DigitChars[i] = c) - 1

\* s.strip()
Strip(s) ==
    LET keep == {i \in 1..Len(s) : s[i] \notin Whitespace}
    IN  IF keep = {} THEN <<>> ELSE SubSeq(s, SetMin(keep), SetMax(keep))

\* s.split(sep): one part more than there are separators
RECURSIVE SplitOn(_, _)
SplitOn(s, sep) ==
    LET at == {i \in 1..Len(s) : s[i] = sep}
    IN  IF at = {} THEN <<s>>
        ELSE LET i == SetMin(at)
             IN  <<SubSeq(s, 1, i - 1)>> \o SplitOn(SubSeq(s, i + 1, Len(s)), sep)

\* s.split(): the maximal runs of non-whitespace characters
RECURSIVE SplitWs(_)
SplitWs(s) ==
    LET keep == {i \in 1..Len(s) : s[i] \notin Whitespace}
    IN  IF keep = {} THEN <<>>
        ELSE LET b  == SetMin(keep)
                 ws == {i \in b..Len(s) : s[i] \in Whitespace}
                 e  == IF ws = {} THEN Len(s) + 1 ELSE SetMin(ws)
             IN  <<SubSeq(s, b, e - 1)>> \o SplitWs(SubSeq(s, e, Len(s)))

\* s.replace(c, '')
Remove(s, c) == SelectSeq(s, LAMBDA x : x # c)

\* s.lower()
Lower(s) ==
    [i \in 1..Len(s) |->
        IF \E j \in 1..26 : UpperChars[j] = s[i]
        THEN LowerChars[CHOOSE j \in 1..26 : UpperChars[j] = s[i]]
        ELSE s[i]]

\* sub in s
Contains(s, sub) ==
    \E i \in 1..(Len(s) - Len(sub) + 1) : SubSeq(s, i, i + Len(sub) - 1) = sub

AllDigits(s) == \A i \in 1..Len(s) : IsDigit(s[i])

RECURSIVE DigitsVal(_)
DigitsVal(s) ==
    IF s = <<>> THEN 0
    ELSE 10 * DigitsVal(SubSeq(s, 1, Len(s) - 1)) + DigitVal(s[Len(s)])

HasSign(s) == s # <<>> /\ s[1] \in {"+", "-"}

Unsigned(s) == IF HasSign(s) THEN Tail(s) ELSE s

SignOf(s) == IF HasSign(s) /\ s[1] = "-" THEN -1 ELSE 1

\* whether int(s) succeeds: surrounding whitespace, an optional sign, digits
IntParses(s) ==
    LET u == Unsigned(Strip(s))
    IN  u # <<>> /\ AllDigits(u)

\* int(s), where it succeeds
IntValue(s) ==
    LET t == Strip(s)
    IN  SignOf(t) * DigitsVal(Unsigned(t))

\* whether float(s) succeeds: an optional sign, digits with at most one
\* point and at least one digit
FloatParses(s) ==
    LET u    == Unsigned(Strip(s))
        body == Remove(u, ".")
    IN  /\ body # <<>>
        /\ AllDigits(body)
        /\ Len(u) - Len(body) <= 1

\* float(s), where it succeeds
FloatValue(s) ==
    LET t    == Strip(s)
        u    == Unsigned(t)
        dots == {i \in 1..Len(u) : u[i] = "."}
        frac == IF dots = {} THEN 0 ELSE Len(u) - SetMin(dots)
    IN  Rat(SignOf(t) * DigitsVal(Remove(u, ".")), Pow10(frac))

----------------------------------------------------------------------------
(* PollReader *)

\* the dictionary of six empty columns
EmptyDict ==
    [month  |-> <<>>, date   |-> <<>>, sample |-> <<>>,
     stype  |-> <<>>, harris |-> <<>>, trump  |-> <<>>]

\* PollReader._to_int
to_int(s) == IntValue(Strip(Remove(s, ",")))

to_int_raises(s) == ~IntParses(Strip(Remove(s, ",")))

\* a conversion that divides by 10
to_pct_decimal_tenth(s) ==
    LET v == FloatValue(Strip(s))
    IN  IF RatGT(v, RatOne) THEN RatDivInt(v, 10) ELSE v

\* PollReader._to_pct_decimal
to_pct_decimal(s) ==
    LET v == FloatValue(Strip(s))
    IN  IF RatGT(v, RatOne) THEN RatDivInt(v, PctScale) ELSE v

to_pct_decimal_raises(s) == ~FloatParses(Strip(s))

\* the six appends that close the loop body
AppendRecord(d, month, date, sample_val, sample_type, harris, trump) ==
    [month  |-> Append(d.month, month),
     date   |-> Append(d.date, date),
     sample |-> Append(d.sample, sample_val),
     stype  |-> Append(d.stype, sample_type),
     harris |-> Append(d.harris, harris),
     trump  |-> Append(d.trump, trump)]

\* lines 72-89 with the month appended before the other fields are parsed
ParseRowAppendsEarly(d, parts) ==
    LET d1 == [d EXCEPT !.month = Append(@, parts[1])]
    IN
    IF to_int_raises(parts[2]) THEN [dict |-> d1, exc |-> "ValueError"]
    ELSE
    LET sample_parts == SplitWs(parts[3])
    IN
    IF sample_parts = <<>> THEN [dict |-> d1, exc |-> "IndexError"]
    ELSE IF ~IntParses(Remove(sample_parts[1], ","))
    THEN [dict |-> d1, exc |-> "ValueError"]
    ELSE IF to_pct_decimal_raises(parts[4]) THEN [dict |-> d1, exc |-> "ValueError"]
    ELSE IF to_pct_decimal_raises(parts[5]) THEN [dict |-> d1, exc |-> "ValueError"]
    ELSE [dict |-> AppendRecord(d, parts[1], to_int(parts[2]),
                      IntValue(Remove(sample_parts[1], ",")),
                      IF Len(sample_parts) > 1 THEN sample_parts[2] ELSE <<>>,
                      to_pct_decimal(parts[4]), to_pct_decimal(parts[5])),
          exc  |-> "none"]

\* the loop body of build_data_dict on a row of at least 5 parts: the fields
\* are parsed in order, the first that fails raises and leaves d as it was,
\* and only then is the record appended to the six columns
ParseRow(d, parts) ==
    IF to_int_raises(parts[2]) THEN [dict |-> d, exc |-> "ValueError"]
    ELSE
    LET sample_parts == SplitWs(parts[3])
    IN
    IF sample_parts = <<>> THEN [dict |-> d, exc |-> "IndexError"]
    ELSE IF ~IntParses(Remove(sample_parts[1], ","))
    THEN [dict |-> d, exc |-> "ValueError"]
    ELSE IF to_pct_decimal_raises(parts[4]) THEN [dict |-> d, exc |-> "ValueError"]
    ELSE IF to_pct_decimal_raises(parts[5]) THEN [dict |-> d, exc |-> "ValueError"]
    ELSE [dict |-> AppendRecord(d, parts[1], to_int(parts[2]),
                      IntValue(Remove(sample_parts[1], ",")),
                      IF Len(sample_parts) > 1 THEN sample_parts[2] ELSE <<>>,
                      to_pct_decimal(parts[4]), to_pct_decimal(parts[5])),
          exc  |-> "none"]

\* [p.strip() for p in line.split(',')]
SplitRow(line) ==
    LET split == SplitOn(line, ",")
    IN  [i \in 1..Len(split) |-> Strip(split[i])]

\* a loop body that skips the rows of exactly 5 parts too
BuildRowSkipsFive(d, line) ==
    LET parts == SplitRow(line)
    IN  IF Len(parts) <= MinFields THEN [dict |-> d, exc |-> "none"]
        ELSE ParseRow(d, parts)

\* one pass of the loop body of build_data_dict over `line`: the dictionary
\* it leaves and the exception it raises ("none": the loop goes on)
BuildRow(d, line) ==
    LET parts == SplitRow(line)
    IN  IF Len(parts) < MinFields THEN [dict |-> d, exc |-> "none"]
        ELSE ParseRow(d, parts)

\* the for loop: the rows in order, stopping at the first that raises
RECURSIVE BuildRows(_, _)
BuildRows(d, lines) ==
    IF lines = <<>> THEN [dict |-> d, exc |-> "none"]
    ELSE LET r == BuildRow(d, Head(lines))
         IN  IF r.exc # "none" THEN r ELSE BuildRows(r.dict, Tail(lines))

\* [r.strip() for r in raw if r.strip()]
StrippedLines(raw) ==
    LET stripped == [i \in 1..Len(raw) |-> Strip(raw[i])]
    IN  SelectSeq(stripped, LAMBDA s : s # <<>>)

\* a build that keeps the columns of the previous build
BuildTableNoReset(old, raw) ==
    LET lines == StrippedLines(raw)
    IN  IF lines = <<>> THEN [dict |-> old, exc |-> "none"]
        ELSE BuildRows(old, Tail(lines))

\* a build that takes the header for a data row
BuildTableKeepsHeader(old, raw) ==
    LET lines == StrippedLines(raw)
    IN  IF lines = <<>> THEN [dict |-> EmptyDict, exc |-> "none"]
        ELSE BuildRows(EmptyDict, lines)

\* build_data_dict on an object whose table is `old` and whose lines are
\* `raw`: the table it leaves in self.data_dict and the exception it raises
BuildTable(old, raw) ==
    LET fresh == EmptyDict
        lines == StrippedLines(raw)
    IN  IF lines = <<>> THEN [dict |-> fresh, exc |-> "none"]
        ELSE BuildRows(fresh, Tail(lines))

\* a comparison that gives a tie to Harris
HighestGeq(d) ==
    LET h == d.harris
        t == d.trump
    IN  IF h = <<>> \/ t = <<>> THEN <<"EVEN", 0>>
        ELSE LET max_h == MaxSeq(h)
                 max_t == MaxSeq(t)
             IN  IF ~RatGT(max_t, max_h) THEN <<"Harris", Fmt1(max_h)>>
                 ELSE <<"Trump", Fmt1(max_t)>>

\* highest_polling_candidate: the label and the percentage printed after it,
\* in tenths of a percent
Highest(d) ==
    LET h == d.harris
        t == d.trump
    IN  IF h = <<>> \/ t = <<>> THEN <<"EVEN", 0>>
        ELSE LET max_h == MaxSeq(h)
                 max_t == MaxSeq(t)
             IN  IF RatGT(max_h, max_t) THEN <<"Harris", Fmt1(max_h)>>
                 ELSE IF RatGT(max_t, max_h) THEN <<"Trump", Fmt1(max_t)>>
                 ELSE <<"EVEN", Fmt1(max_h)>>

\* the indices the loop of likely_voter_polling_average keeps
LvIndices(d) ==
    {i \in 1..Len(d.stype) :
        LET tl == Lower(d.stype[i])
        IN  tl = <<"l", "v">> \/ Contains(tl, <<"l", "i", "k", "e", "l", "y">>)}

\* the sublist of xs at the indices of S from i on, in order
RECURSIVE PickFrom(_, _, _)
PickFrom(xs, S, i) ==
    IF i > Len(xs) THEN <<>>
    ELSE (IF i \in S THEN <<xs[i]>> ELSE <<>>) \o PickFrom(xs, S, i + 1)

\* an average that divides by the size of the whole table
LikelyAverageFullSize(d) ==
    LET S    == LvIndices(d)
        lv_h == PickFrom(d.harris, S, 1)
        lv_t == PickFrom(d.trump, S, 1)
    IN  IF lv_h = <<>>
        THEN IF d.harris = <<>> THEN <<RatZero, RatZero>>
             ELSE <<RatDivInt(SumSeq(d.harris), Len(d.harris)),
                    RatDivInt(SumSeq(d.trump), Len(d.trump))>>
        ELSE <<RatDivInt(SumSeq(lv_h), Len(d.harris)),
               RatDivInt(SumSeq(lv_t), Len(d.trump))>>

\* likely_voter_polling_average
LikelyAverage(d) ==
    LET S    == LvIndices(d)
        lv_h == PickFrom(d.harris, S, 1)
        lv_t == PickFrom(d.trump, S, 1)
    IN  IF lv_h = <<>>
        THEN IF d.harris = <<>> THEN <<RatZero, RatZero>>
             ELSE <<RatDivInt(SumSeq(d.harris), Len(d.harris)),
                    RatDivInt(SumSeq(d.trump), Len(d.trump))>>
        ELSE <<RatDivInt(SumSeq(lv_h), Len(lv_h)),
               RatDivInt(SumSeq(lv_t), Len(lv_t))>>

\* a window of half the table rounded up
WindowCeil(n) ==
    IF n >= LongHistory THEN LongWindow
    ELSE IF (n + 1) \div 2 > 1 THEN (n + 1) \div 2 ELSE 1

\* k = 30 if n >= 60 else max(1, n // 2)
Window(n) ==
    IF n >= LongHistory THEN LongWindow
    ELSE IF n \div 2 > 1 THEN n \div 2 ELSE 1

\* xs[:j]
FirstK(xs, j) == SubSeq(xs, 1, IF j < Len(xs) THEN j ELSE Len(xs))

\* xs[-j:], j >= 1
LastK(xs, j) == SubSeq(xs, IF j < Len(xs) THEN Len(xs) - j + 1 ELSE 1, Len(xs))

Mean(xs) == RatDivInt(SumSeq(xs), Len(xs))

\* a change taken as earliest minus latest
HistoryChangeReversed(d) ==
    LET n == Len(d.harris)
        j == Window(n)
    IN  IF n = 0 THEN <<RatZero, RatZero>>
        ELSE <<RatSub(Mean(LastK(d.harris, j)), Mean(FirstK(d.harris, j))),
               RatSub(Mean(LastK(d.trump, j)), Mean(FirstK(d.trump, j)))>>

\* polling_history_change
HistoryChange(d) ==
    LET n == Len(d.harris)
        j == Window(n)
    IN  IF n = 0 THEN <<RatZero, RatZero>>
        ELSE <<RatSub(Mean(FirstK(d.harris, j)), Mean(LastK(d.harris, j))),
               RatSub(Mean(FirstK(d.trump, j)), Mean(LastK(d.trump, j)))>>

----------------------------------------------------------------------------
(* The files the constructor may read *)

\* the first line of a small file: a header, a blank line, or a data row
\* standing where the header should be
FirstLines == {LineHeader, LineBlank, LineSepLv}

\* every file of at most MaxLines lines: a first line of FirstLines, then
\* any lines of LinePool
SmallFiles ==
    {<<>>} \cup
    UNION {{<<f>> \o rest : f \in FirstLines, rest \in [1..n -> LinePool]} :
              n \in 0..(MaxLines - 1)}

\* a header and n well-formed rows, cycling through GoodRows
LongFiles ==
    {<<LineHeader>> \o [i \in 1..n |-> GoodRows[(i % Len(GoodRows)) + 1]] :
        n \in 0..MaxLong}

\* a header and MaxMixed - 1 or MaxMixed rows, at most MaxShort of them
\* 3-field rows at any positions, the others well-formed
MixedFiles ==
    UNION {
        {<<LineHeader>> \o
            [i \in 1..n |-> IF i \in S THEN LineShort3
                            ELSE GoodRows[(i % Len(GoodRows)) + 1]] :
            S \in {T \in SUBSET (1..n) : Cardinality(T) <= MaxShort}} :
        n \in (MaxMixed - 1)..MaxMixed}

Files == SmallFiles \cup LongFiles \cup MixedFiles

----------------------------------------------------------------------------
(* The object *)

\* PollReader.__init__
Init ==
    /\ raw_data \in Files
    /\ data_dict = EmptyDict
    /\ op = "init"
    /\ exc = "none"
    /\ ret = <<>>
    /\ k = 0
    /\ builds = 0

\* PollReader.build_data_dict
build_data_dict ==
    /\ builds < MaxBuilds
    /\ LET r == BuildTable(data_dict, raw_data)
       IN  /\ data_dict' = r.dict
           /\ exc' = r.exc
    /\ op' = "build"
    /\ ret' = <<>>
    /\ k' = 0
    /\ builds' = builds + 1
    /\ UNCHANGED raw_data

\* PollReader.highest_polling_candidate
highest_polling_candidate ==
    /\ op' = "highest"
    /\ ret' = Highest(data_dict)
    /\ exc' = "none"
    /\ k' = 0
    /\ UNCHANGED <<raw_data, data_dict, builds>>

\* PollReader.likely_voter_polling_average
likely_voter_polling_average ==
    /\ op' = "likely"
    /\ ret' = LikelyAverage(data_dict)
    /\ exc' = "none"
    /\ k' = 0
    /\ UNCHANGED <<raw_data, data_dict, builds>>

\* PollReader.polling_history_change
polling_history_change ==
    /\ op' = "change"
    /\ ret' = HistoryChange(data_dict)
    /\ exc' = "none"
    /\ k' = IF Len(data_dict.harris) = 0 THEN 0 ELSE Window(Len(data_dict.harris))
    /\ UNCHANGED <<raw_data, data_dict, builds>>

Next ==
    \/ build_data_dict
    \/ highest_polling_candidate
    \/ likely_voter_polling_average
    \/ polling_history_change

Spec == Init /\ [][Next]_vars

----------------------------------------------------------------------------
(* What the properties speak of, read off the raw lines and the table *)

\* the number of records in the table
TableSize == Len(data_dict.harris)

\* the places of the lines that hold something other than whitespace
NonBlankAt(raw) ==
    {i \in 1..Len(raw) : \E j \in 1..Len(raw[i]) : raw[i][j] \notin Whitespace}

NumCommas(line) == Cardinality({j \in 1..Len(line) : line[j] = ","})

\* the places of the rows that are to give a record: non-blank, after the
\* first non-blank line, of at least 5 comma-separated parts
DataAt(raw) ==
    LET nb == NonBlankAt(raw)
    IN  IF nb = {} THEN {}
        ELSE {i \in nb \ {SetMin(nb)} : NumCommas(raw[i]) >= 4}

\* the places of the non-blank rows after the header that are to be skipped
SkippedAt(raw) ==
    LET nb == NonBlankAt(raw)
    IN  IF nb = {} THEN {}
        ELSE {i \in nb \ {SetMin(nb)} : NumCommas(raw[i]) < 4}

\* the r-th smallest element of S
Nth(S, r) == CHOOSE i \in S : Cardinality({j \in S : j <= i}) = r

RatLE(a, b) == ~RatGT(a, b)

InUnit(x) == RatLE(RatZero, x) /\ RatLE(x, RatOne)

\* the sum of xs over the indices of S
RECURSIVE SumOver(_, _)
SumOver(xs, S) ==
    IF S = {} THEN RatZero
    ELSE LET i == CHOOSE j \in S : TRUE
         IN  RatAdd(xs[i], SumOver(xs, S \ {i}))

MeanOver(xs, S) == RatDivInt(SumOver(xs, S), Cardinality(S))

\* the greatest value of a non-empty column
ColumnMax(xs) ==
    CHOOSE x \in {xs[i] : i \in 1..Len(xs)} :
        \A i \in 1..Len(xs) : RatLE(xs[i], x)

\* the records whose sample type, lower-cased, is "lv" or contains "likely"
LikelyAt ==
    {i \in 1..TableSize :
        \/ Lower(data_dict.stype[i]) = <<"l", "v">>
        \/ Contains(Lower(data_dict.stype[i]), <<"l", "i", "k", "e", "l", "y">>)}

\* the window size the specification gives for a table of n records
SpecWindow(n) == IF n >= 60 THEN 30 ELSE IF n \div 2 >= 1 THEN n \div 2 ELSE 1

GoodRowSet == {GoodRows[i] : i \in 1..Len(GoodRows)}

\* a header, then 10 well-formed rows and 2 rows of 3 fields in any order
TenGoodTwoShort(raw) ==
    /\ Len(raw) = 13
    /\ raw[1] = LineHeader
    /\ Cardinality({i \in 2..13 : raw[i] \in GoodRowSet}) = 10
    /\ Cardinality({i \in 2..13 : NumCommas(raw[i]) = 2}) = 2

\* the value of the f-th comma-separated field of a line
FieldValue(line, f) == FloatValue(SplitRow(line)[f])

\* every row that is to give a record has a fourth and a fifth field that
\* are numbers between 0 and 100
ResultsWithinPercent(raw) ==
    \A i \in DataAt(raw) : \A f \in {4, 5} :
        /\ FloatParses(SplitRow(raw[i])[f])
        /\ RatLE(RatZero, FieldValue(raw[i], f))
        /\ RatLE(FieldValue(raw[i], f), Rat(100, 1))

\* the build stopped at a row of at least 5 parts whose date or sample-size
\* field does not parse as an integer: every row before it gave a record, so
\* it is the row after as many data rows as the table has records
StoppedAtBadInteger ==
    /\ op = "build"
    /\ exc # "none"
    /\ TableSize < Cardinality(DataAt(raw_data))
    /\ LET parts  == SplitRow(raw_data[Nth(DataAt(raw_data), TableSize + 1)])
           tokens == SplitWs(parts[3])
       IN  \/ ~IntParses(parts[2])
           \/ tokens = <<>>
           \/ ~IntParses(tokens[1])

----------------------------------------------------------------------------
(* Properties *)

\* C1: a build_data_dict that raises on a bad row leaves no partial table:
\* the table holds none of the records of the rows before the bad row.
C1_NoPartialTable == StoppedAtBadInteger => data_dict = EmptyDict

\* C2: build_data_dict is idempotent: once it has been called, no later
\* call, of build_data_dict or of a query, changes the table, so the table
\* after any number of builds is the table of the first.
C2_Idempotent == [][builds >= 1 => data_dict' = data_dict]_vars

C2_Witness == builds >= 2 /\ op = "build" /\ TableSize >= 2

\* C3 as stated: for every table size n >= 1 the window size k of
\* polling_history_change satisfies 2k <= n.
C3_Original ==
    (op = "change" /\ TableSize >= 1) => 2 * k <= TableSize

\* C3 as amended: for every table size n >= 2 the window size k satisfies
\* 2k <= n, and the latest window 1..k and the earliest window n-k+1..n
\* share no record.
C3_NoOverlap ==
    (op = "change" /\ TableSize >= 2) =>
        /\ 2 * k <= TableSize
        /\ (1..k) \cap ((TableSize - k + 1)..TableSize) = {}

C3_Witness == op = "change" /\ TableSize = 5 /\ k = 2

\* C4: in every state the six columns have the same length.
C4_ColumnsAligned ==
    /\ Len(data_dict.month) = Len(data_dict.date)
    /\ Len(data_dict.date) = Len(data_dict.sample)
    /\ Len(data_dict.sample) = Len(data_dict.stype)
    /\ Len(data_dict.stype) = Len(data_dict.harris)
    /\ Len(data_dict.harris) = Len(data_dict.trump)

C4_Witness == op = "build" /\ exc # "none" /\ Len(data_dict.month) >= 1

\* C5: after a successful build_data_dict the table holds one record for
\* each non-blank line after the first non-blank line that has at least 5
\* comma-separated parts, in input order (the r-th record carries the month
\* of the r-th such line); the other lines give no record and no error.
C5_OneRecordPerRow ==
    (op = "build" /\ exc = "none") =>
        /\ TableSize = Cardinality(DataAt(raw_data))
        /\ \A r \in 1..TableSize :
              data_dict.month[r] = SplitRow(raw_data[Nth(DataAt(raw_data), r)])[1]

C5_Witness ==
    /\ op = "build"
    /\ exc = "none"
    /\ \E i \in DataAt(raw_data), j \in SkippedAt(raw_data), l \in DataAt(raw_data) :
          i < j /\ j < l

\* C6: highest_polling_candidate returns "EVEN 0.0%" on an empty table;
\* otherwise it names Harris with maxH iff maxH > maxT, Trump with maxT iff
\* maxT > maxH, and EVEN with maxH iff the two maxima are equal.
C6_Highest ==
    op = "highest" =>
        IF TableSize = 0 THEN ret = <<"EVEN", 0>>
        ELSE LET maxH == ColumnMax(data_dict.harris)
                 maxT == ColumnMax(data_dict.trump)
             IN  /\ ret[1] = "Harris" <=> RatGT(maxH, maxT)
                 /\ ret[1] = "Trump" <=> RatGT(maxT, maxH)
                 /\ ret[1] = "EVEN" <=> maxH = maxT
                 /\ ret[1] = "Trump" => ret[2] = Fmt1(maxT)
                 /\ ret[1] # "Trump" => ret[2] = Fmt1(maxH)

C6_Witness ==
    /\ op = "highest"
    /\ TableSize = 2
    /\ ret = <<"EVEN", 570>>

\* C7: likely_voter_polling_average returns the means of the Harris and the
\* Trump results over the likely-voter records, dividing by their number;
\* the means over all records when there is none; (0.0, 0.0) on an empty
\* table.
C7_LikelyAverage ==
    op = "likely" =>
        LET over == IF LikelyAt = {} THEN 1..TableSize ELSE LikelyAt
        IN  IF TableSize = 0 THEN ret = <<RatZero, RatZero>>
            ELSE ret = <<MeanOver(data_dict.harris, over),
                         MeanOver(data_dict.trump, over)>>

C7_Witness ==
    /\ op = "likely"
    /\ Cardinality(LikelyAt) >= 2
    /\ Cardinality(LikelyAt) < TableSize

\* C8: polling_history_change returns (0.0, 0.0) on an empty table; on a
\* table of n >= 1 records it returns, for Harris and for Trump, the mean of
\* the first k records minus the mean of the last k, with k = 30 if n >= 60
\* and max(1, n // 2) otherwise.
C8_HistoryChange ==
    op = "change" =>
        LET n == TableSize
            w == SpecWindow(n)
        IN  IF n = 0 THEN ret = <<RatZero, RatZero>>
            ELSE ret = <<RatSub(MeanOver(data_dict.harris, 1..w),
                                MeanOver(data_dict.harris, (n - w + 1)..n)),
                         RatSub(MeanOver(data_dict.trump, 1..w),
                                MeanOver(data_dict.trump, (n - w + 1)..n))>>

C8_Witness ==
    /\ op = "change"
    /\ TableSize > 60
    /\ ret[1] # RatZero
    /\ ret[2] # RatZero

\* C9 as stated: a file of 10 well-formed rows and 2 rows of 3 fields
\* gives a table of exactly 8 records.
C9_Original ==
    (op = "build" /\ TenGoodTwoShort(raw_data)) => TableSize = 8

\* C9 as amended: a file of 10 well-formed rows and 2 rows of 3 fields
\* gives, without error, a table of exactly 10 records.
C9_TenRecords ==
    (op = "build" /\ TenGoodTwoShort(raw_data)) =>
        (exc = "none" /\ TableSize = 10)

C9_Witness == op = "build" /\ TenGoodTwoShort(raw_data) /\ raw_data[2] = LineShort3

\* C10 as stated: after a successful build_data_dict every Harris and every
\* Trump result in the table lies in [0, 1].
C10_Original ==
    (op = "build" /\ exc = "none") =>
        \A i \in 1..TableSize :
            InUnit(data_dict.harris[i]) /\ InUnit(data_dict.trump[i])

\* C10 as amended: after a successful build_data_dict of a file whose
\* rows have fourth and fifth fields between 0 and 100, every Harris and
\* every Trump result in the table lies in [0, 1].
C10_UnitResults ==
    (op = "build" /\ exc = "none" /\ ResultsWithinPercent(raw_data)) =>
        \A i \in 1..TableSize :
            InUnit(data_dict.harris[i]) /\ InUnit(data_dict.trump[i])

C10_Witness ==
    /\ op = "build"
    /\ exc = "none"
    /\ ResultsWithinPercent(raw_data)
    /\ \E i \in 1..TableSize : data_dict.harris[i] = Rat(57, 100)
    /\ \E i \in 1..TableSize : data_dict.trump[i] = RatOne

====
